---- MODULE Spec2Model ----
(***************************************************************************)
(* A model of bumpversion's version engine (src/bumpversion/__init__.py): *)
(* class VersionPart (one component of a version) and class Version       *)
(* (parse / bump / serialize).                                            *)
(*                                                                        *)
(* Strings are sequences of one-character strings.  The code targets      *)
(* Python 2 semantics (KeyError.message, codecs-wrapped stdout): a dict   *)
(* iterates in an order the language does not fix, which the model keeps  *)
(* as a nondeterministic choice (items_order).                            *)
(***************************************************************************)
EXTENDS Integers, Sequences, FiniteSets, TLC

VARIABLES
    \* ---- a Version object -------------------------------------------
    parse_regex,        \* self.parse_regex: the compiled pattern
    serialize_formats,  \* self.serialize_formats: list of templates
    context,            \* self.context: name -> string
    has_parsed,         \* whether the attribute self._parsed exists yet
    _parsed,            \* self._parsed: name -> VersionPart
    items_order,        \* the order in which self._parsed.items() iterates
    \* ---- the last call made on the Version object --------------------
    op,                 \* "init" | "parse" | "bump" | "serialize"
    version_string,     \* argument of the last parse call
    part_name,          \* argument of the last bump call
    pre,                \* self._parsed as it was before the last call
    exc,                \* exception the last call raised, or "none"
    ret,                \* return value of the last serialize call
    chosen,             \* index of the template serialize rendered with (0: none)
    outcomes,           \* per template, what _choose_serialize_format saw
    bumps,              \* bump calls since the last parse
    \* ---- a stand-alone VersionPart object and the last call on it ----
    part,
    part_op,
    part_pre,
    part_exc,
    part_bumps

version_vars == <<parse_regex, serialize_formats, context, has_parsed, _parsed,
                  items_order, op, version_string, part_name, pre, exc, ret,
                  chosen, outcomes, bumps>>
part_vars == <<part, part_op, part_pre, part_exc, part_bumps>>
vars == <<version_vars, part_vars>>

----------------------------------------------------------------------------
\* Bounds of the model.

\* longest version string handed to Version.parse in ParseSpec
MaxLen == 5
\* longest raw value of the stand-alone VersionPart
MaxPartLen == 3
\* bump calls made between two parse calls / on one VersionPart
MaxBumps == 1

----------------------------------------------------------------------------
\* Strings.

\* Python's None where a string may stand; no string of characters equals it.
None == <<"None">>
\* Python's None as a label (Formatter().parse yields it for trailing text).
NoneLabel == "None"

Digits == {"0", "1", "2", "3", "4", "5", "6", "7", "8", "9"}
Newline == "\n"

DigitVal(c) ==
    CASE c = "0" -> 0 [] c = "1" -> 1 [] c = "2" -> 2 [] c = "3" -> 3
      [] c = "4" -> 4 [] c = "5" -> 5 [] c = "6" -> 6 [] c = "7" -> 7
      [] c = "8" -> 8 [] c = "9" -> 9

DigitChar(n) ==
    CASE n = 0 -> "0" [] n = 1 -> "1" [] n = 2 -> "2" [] n = 3 -> "3"
      [] n = 4 -> "4" [] n = 5 -> "5" [] n = 6 -> "6" [] n = 7 -> "7"
      [] n = 8 -> "8" [] n = 9 -> "9"

\* int(s) for a string of decimal digits
RECURSIVE int(_)
int(ds) ==
    IF ds = <<>> THEN 0
    ELSE int(SubSeq(ds, 1, Len(ds) - 1)) * 10 + DigitVal(ds[Len(ds)])

\* str(n) for a natural number
RECURSIVE str(_)
str(n) ==
    IF n < 10 THEN <<DigitChar(n)>>
    ELSE str(n \div 10) \o <<DigitChar(n % 10)>>

\* every string over the alphabet A of length at most n
RECURSIVE StringsUpTo(_, _)
StringsUpTo(A, n) ==
    IF n = 0 THEN {<<>>}
    ELSE LET shorter == StringsUpTo(A, n - 1)
         IN  shorter \cup {Append(s, c) : s \in shorter, c \in A}

\* the least index >= i at which s has a character in (not in) class C,
\* or Len(s) + 1
RECURSIVE SkipWhile(_, _, _, _)
SkipWhile(s, i, C, inside) ==
    IF i > Len(s) THEN i
    ELSE IF (s[i] \in C) = inside THEN SkipWhile(s, i + 1, C, inside)
    ELSE i

----------------------------------------------------------------------------
\* class VersionPart.  An object is the record [_value |-> raw], raw a string
\* or None.

VersionPart(v) == [_value |-> v]

\* FIRST_NUMERIC = re.compile('([^\d]*)(\d+)(.*)') and its .search(v):
\* the leftmost match starts at the first character; [^\d]* takes everything
\* up to the first digit (line breaks included), \d+ the maximal digit run,
\* and .* the rest of the line: "." does not match a line break.
FIRST_NUMERIC_search(v) ==
    LET d == SkipWhile(v, 1, Digits, FALSE)
        e == SkipWhile(v, d, Digits, TRUE)
        f == SkipWhile(v, e, {Newline}, FALSE)
    IN  IF d > Len(v) THEN [found |-> FALSE, prefix |-> <<>>, numeric |-> <<>>,
                            suffix |-> <<>>]
        ELSE [found |-> TRUE,
              prefix |-> SubSeq(v, 1, d - 1),
              numeric |-> SubSeq(v, d, e - 1),
              suffix |-> SubSeq(v, e, f - 1)]

\* a plausible slip: the value normalised as a number when it is one
VersionPart_value_as_int(self) ==
    IF self._value = None \/ self._value = <<>> THEN <<"0">>
    ELSE IF \A i \in 1..Len(self._value) : self._value[i] \in Digits
    THEN str(int(self._value))
    ELSE self._value

\* the value property: self._value or "0"
VersionPart_value(self) ==
    IF self._value = None \/ self._value = <<>> THEN <<"0">> ELSE self._value

\* bump(): [exc, self]; search(...) is None when the value has no digit, and
\* None.groups() raises AttributeError before anything is assigned
VersionPart_bump(self) ==
    LET m == FIRST_NUMERIC_search(VersionPart_value(self))
    IN  IF ~m.found THEN [exc |-> "AttributeError", self |-> self]
        ELSE [exc |-> "none",
              self |-> [_value |-> m.prefix \o str(int(m.numeric) + 1) \o m.suffix]]

VersionPart_is_optional(self) == VersionPart_value(self) = <<"0">>

VersionPart_zero(self) == [_value |-> <<"0">>]

----------------------------------------------------------------------------
\* Serialization templates.  A template is the sequence of its tokens: a
\* literal character, or a replacement field {name}.

F(name) == [kind |-> "fld", text |-> name]
L(c) == [kind |-> "lit", text |-> c]

\* the names of the replacement fields of a template, left to right
FieldsOf(fmt) ==
    LET flds == SelectSeq(fmt, LAMBDA t : t.kind = "fld")
    IN  [i \in 1..Len(flds) |-> flds[i].text]

\* _labels_for_format: the field_name of every tuple Formatter().parse yields:
\* one per replacement field, and None for literal text that ends the template
_labels_for_format(serialize_format) ==
    FieldsOf(serialize_format) \o
        (IF serialize_format # <<>> /\ serialize_format[Len(serialize_format)].kind = "lit"
         THEN <<NoneLabel>> ELSE <<>>)

\* order(): the labels of the first serialization format
order(formats) == _labels_for_format(formats[1])

Range(seq) == {seq[i] : i \in 1..Len(seq)}

----------------------------------------------------------------------------
\* The parse pattern.  A pattern is a sequence of elements:
\*   Grp(name, cls, min)  (?P<name>[cls]+) for min = 1, (?P<name>[cls]*) for 0
\*   Lit(c)               the (escaped) character c
\*   Opt(sub)             (sub)?  with sub a sequence of Grp and Lit elements

Grp(name, cls, min) ==
    [kind |-> "grp", name |-> name, cls |-> cls, min |-> min, ch |-> "", sub |-> <<>>]
Lit(c) ==
    [kind |-> "lit", name |-> "", cls |-> {}, min |-> 0, ch |-> c, sub |-> <<>>]
Opt(sub) ==
    [kind |-> "opt", name |-> "", cls |-> {}, min |-> 0, ch |-> "", sub |-> sub]

\* pattern.groupindex: the named groups of a pattern
RECURSIVE GroupNames(_)
GroupNames(pat) ==
    IF pat = <<>> THEN {}
    ELSE LET e == Head(pat)
         IN  (CASE e.kind = "grp" -> {e.name}
                [] e.kind = "opt" -> GroupNames(e.sub)
                [] OTHER -> {}) \cup GroupNames(Tail(pat))

NoMatch == [ok |-> FALSE, end |-> 0, groups |-> <<>>]

\* The regular expression engine, matching pat against s from index i with the
\* groups g captured so far: greedy quantifiers, backtracking in priority order.
RECURSIVE MatchFrom(_, _, _, _)
RECURSIVE MatchGroup(_, _, _, _, _)
MatchFrom(pat, s, i, g) ==
    IF pat = <<>> THEN [ok |-> TRUE, end |-> i, groups |-> g]
    ELSE LET e == Head(pat)
         IN  CASE e.kind = "lit" ->
                    IF i <= Len(s) /\ s[i] = e.ch
                    THEN MatchFrom(Tail(pat), s, i + 1, g)
                    ELSE NoMatch
               [] e.kind = "grp" ->
                    MatchGroup(pat, s, i, g, SkipWhile(s, i, e.cls, TRUE) - i)
               [] e.kind = "opt" ->
                    LET taken == MatchFrom(e.sub \o Tail(pat), s, i, g)
                    IN  IF taken.ok THEN taken ELSE MatchFrom(Tail(pat), s, i, g)

\* the group Head(pat) taking n characters, then n - 1, ... down to its minimum
MatchGroup(pat, s, i, g, n) ==
    LET e == Head(pat)
    IN  IF n < e.min THEN NoMatch
        ELSE LET r == MatchFrom(Tail(pat), s, i + n,
                                [g EXCEPT ![e.name] = SubSeq(s, i, i + n - 1)])
             IN  IF r.ok THEN r ELSE MatchGroup(pat, s, i, g, n - 1)

\* parse_regex.search(version_string): the match at the leftmost index that has
\* one; groups holds match.groupdict(): every named group of the pattern,
\* None for a group that took no part in the match
RECURSIVE SearchFrom(_, _, _)
SearchFrom(pat, s, i) ==
    IF i > Len(s) + 1 THEN [ok |-> FALSE, start |-> 0, end |-> 0, groups |-> <<>>]
    ELSE LET r == MatchFrom(pat, s, i, [n \in GroupNames(pat) |-> None])
         IN  IF r.ok THEN [ok |-> TRUE, start |-> i, end |-> r.end, groups |-> r.groups]
             ELSE SearchFrom(pat, s, i + 1)

search(pat, s) == SearchFrom(pat, s, 1)

----------------------------------------------------------------------------
\* class Version.

EmptyDict == [k \in {} |-> VersionPart(None)]

\* every order in which a dict with the keys K may iterate
Orders(K) ==
    {o \in [1..Cardinality(K) -> K] : \A i, j \in 1..Cardinality(K) : o[i] = o[j] => i = j}

\* a plausible slip: a group that took no part in the match gets no component
Version_parse_skip_unset(regex, s) ==
    LET match == search(regex, s)
    IN  IF ~match.ok THEN EmptyDict
        ELSE [key \in {k \in DOMAIN match.groups : match.groups[k] # None} |->
                 VersionPart(match.groups[key])]

\* parse: the new self._parsed
Version_parse(regex, s) ==
    LET match == search(regex, s)
    IN  IF ~match.ok THEN EmptyDict
        ELSE [key \in DOMAIN match.groups |-> VersionPart(match.groups[key])]

\* bump: the loop over self.order() from its i-th label on, with self._parsed = p.
\* [exc, parsed]: an exception of VersionPart.bump leaves the loop at once.
RECURSIVE BumpLoop(_, _, _, _, _)
BumpLoop(labels, i, p, name, bumped) ==
    IF i > Len(labels) THEN [exc |-> "none", parsed |-> p]
    ELSE LET label == labels[i]
         IN  IF label \notin DOMAIN p
             THEN BumpLoop(labels, i + 1, p, name, bumped)
             ELSE IF label = name
             THEN LET b == VersionPart_bump(p[name])
                  IN  IF b.exc # "none" THEN [exc |-> b.exc, parsed |-> p]
                      ELSE BumpLoop(labels, i + 1, [p EXCEPT ![name] = b.self], name, TRUE)
             ELSE IF bumped
             THEN BumpLoop(labels, i + 1, [p EXCEPT ![label] = VersionPart_zero(p[label])],
                           name, bumped)
             ELSE BumpLoop(labels, i + 1, p, name, bumped)

\* a plausible slip: the loop starts with bumped already set
Version_bump_bumped_set(formats, p, name) == BumpLoop(order(formats), 1, p, name, TRUE)

\* a plausible slip: the other components are reset before the target is
\* bumped, so that a bump that fails has reset them already
Version_bump_reset_first(formats, p, name) ==
    LET r == BumpLoop(order(formats), 1, p, name, FALSE)
    IN  IF r.exc = "none" THEN r
        ELSE [exc |-> r.exc,
              parsed |-> [n \in DOMAIN p |->
                            IF n # name /\ n \in Range(order(formats))
                            THEN VersionPart_zero(p[n]) ELSE p[n]]]

Version_bump(formats, p, name) == BumpLoop(order(formats), 1, p, name, FALSE)

\* a plausible slip: the update the other way round, the context winning
values_context_wins(ctx, p) ==
    [n \in DOMAIN ctx \cup DOMAIN p |->
        IF n \in DOMAIN ctx THEN ctx[n] ELSE VersionPart_value(p[n])]

\* _serialize, "values": the context, updated with the parsed components; a
\* component is rendered through __format__ (its value property), a context
\* entry as it stands
values(ctx, p) ==
    [n \in DOMAIN ctx \cup DOMAIN p |->
        IF n \in DOMAIN p THEN VersionPart_value(p[n]) ELSE ctx[n]]

\* serialize_format.format(**values): [exc, serialized]; KeyError at the first
\* replacement field that names no entry of vals
RECURSIVE format(_, _)
format(fmt, vals) ==
    IF fmt = <<>> THEN [exc |-> "none", serialized |-> <<>>]
    ELSE LET t == Head(fmt)
             rest == format(Tail(fmt), vals)
         IN  IF t.kind = "fld" /\ t.text \notin DOMAIN vals
             THEN [exc |-> "KeyError", serialized |-> <<>>]
             ELSE IF rest.exc # "none" THEN rest
             ELSE [exc |-> "none",
                   serialized |-> (IF t.kind = "lit" THEN <<t.text>> ELSE vals[t.text])
                                  \o rest.serialized]

\* _serialize, the loop over self._parsed.items() taken in the order ord:
\* the keys of the components that are not optional, and of the optional ones
\* met before the first that is not
RECURSIVE keys_needing_representation(_, _, _, _)
keys_needing_representation(p, ord, i, found_required) ==
    IF i > Len(ord) THEN {}
    ELSE LET k == ord[i]
         IN  IF ~VersionPart_is_optional(p[k])
             THEN {k} \cup keys_needing_representation(p, ord, i + 1, TRUE)
             ELSE IF ~found_required
             THEN {k} \cup keys_needing_representation(p, ord, i + 1, found_required)
             ELSE keys_needing_representation(p, ord, i + 1, found_required)

required_by_format(serialize_format) == Range(_labels_for_format(serialize_format))

\* keys_needing_representation > required_by_format: a proper superset
Incomplete(needing, required) == required \subseteq needing /\ required # needing

\* _serialize(serialize_format, raise_if_incomplete): [exc, serialized]
_serialize(serialize_format, raise_if_incomplete, ctx, p, ord) ==
    LET r == format(serialize_format, values(ctx, p))
    IN  IF r.exc # "none" THEN r
        ELSE IF raise_if_incomplete
                /\ Incomplete(keys_needing_representation(p, ord, 1, FALSE),
                              required_by_format(serialize_format))
        THEN [exc |-> "IncompleteVersionRepresenationException", serialized |-> <<>>]
        ELSE r

\* "not chosen": chosen is None (index 0) or the empty string
NotChosen(formats, c) == c = 0 \/ formats[c] = <<>>

\* a plausible slip: an incomplete format replaces the choice like any other
ChooseStep_incomplete_replaces(formats, c, i, e) ==
    CASE e = "none" -> i
      [] e = "IncompleteVersionRepresenationException" -> i
      [] e = "KeyError" -> c

\* _choose_serialize_format, one turn of the loop: the new value of chosen
\* after the i-th format, whose _serialize raised e (or "none")
ChooseStep(formats, c, i, e) ==
    CASE e = "none" -> i
      [] e = "IncompleteVersionRepresenationException" ->
             IF NotChosen(formats, c) THEN i ELSE c
      [] e = "KeyError" -> c

\* _choose_serialize_format, the loop from the i-th format on with chosen = c:
\* [chosen, outcomes], outcomes the exception each format raised, or "none"
RECURSIVE ChooseLoop(_, _, _, _, _, _, _)
ChooseLoop(formats, ctx, p, ord, i, c, outs) ==
    IF i > Len(formats) THEN [chosen |-> c, outcomes |-> outs]
    ELSE LET r == _serialize(formats[i], TRUE, ctx, p, ord)
         IN  ChooseLoop(formats, ctx, p, ord, i + 1, ChooseStep(formats, c, i, r.exc),
                        Append(outs, r.exc))

\* _choose_serialize_format(): [exc, chosen, outcomes]
_choose_serialize_format(formats, ctx, p, ord) ==
    LET l == ChooseLoop(formats, ctx, p, ord, 1, 0, <<>>)
    IN  IF NotChosen(formats, l.chosen)
        THEN [exc |-> "KeyError", chosen |-> 0, outcomes |-> l.outcomes]
        ELSE [exc |-> "none", chosen |-> l.chosen, outcomes |-> l.outcomes]

\* serialize(): [exc, ret, chosen, outcomes]
Version_serialize(formats, ctx, p, ord) ==
    LET c == _choose_serialize_format(formats, ctx, p, ord)
    IN  IF c.exc # "none"
        THEN [exc |-> c.exc, ret |-> <<>>, chosen |-> 0, outcomes |-> c.outcomes]
        ELSE LET r == _serialize(formats[c.chosen], FALSE, ctx, p, ord)
             IN  [exc |-> r.exc, ret |-> r.serialized, chosen |-> c.chosen,
                  outcomes |-> c.outcomes]

----------------------------------------------------------------------------
\* The calls on a Version object.

\* v.parse(s)
Parse(s) ==
    /\ has_parsed' = TRUE
    /\ _parsed' = Version_parse(parse_regex, s)
    /\ items_order' \in Orders(DOMAIN _parsed')
    /\ op' = "parse"
    /\ version_string' = s
    /\ exc' = "none"
    /\ bumps' = 0
    /\ part_name' = ""
    /\ pre' = EmptyDict
    /\ ret' = <<>>
    /\ chosen' = 0
    /\ outcomes' = <<>>
    /\ UNCHANGED <<parse_regex, serialize_formats, context, part_vars>>

\* v.bump(name); before the first parse self._parsed does not exist and the
\* loop raises AttributeError at its first label
Bump(name) ==
    /\ bumps < MaxBumps
    /\ LET r == IF has_parsed THEN Version_bump(serialize_formats, _parsed, name)
                ELSE [exc |-> IF order(serialize_formats) = <<>> THEN "none"
                              ELSE "AttributeError",
                      parsed |-> _parsed]
       IN  /\ _parsed' = r.parsed
           /\ exc' = r.exc
    /\ op' = "bump"
    /\ part_name' = name
    /\ pre' = _parsed
    /\ bumps' = bumps + 1
    /\ ret' = <<>>
    /\ chosen' = 0
    /\ outcomes' = <<>>
    /\ UNCHANGED <<parse_regex, serialize_formats, context, has_parsed, items_order,
                   version_string, part_vars>>

\* v.serialize(); before the first parse _serialize raises AttributeError on
\* its first format, which _choose_serialize_format does not catch
Serialize ==
    /\ LET r == IF has_parsed
                THEN Version_serialize(serialize_formats, context, _parsed, items_order)
                ELSE [exc |-> "AttributeError", ret |-> <<>>, chosen |-> 0,
                      outcomes |-> <<>>]
       IN  /\ exc' = r.exc
           /\ ret' = r.ret
           /\ chosen' = r.chosen
           /\ outcomes' = r.outcomes
    /\ op' = "serialize"
    /\ part_name' = ""
    /\ pre' = EmptyDict
    /\ UNCHANGED <<parse_regex, serialize_formats, context, has_parsed, _parsed,
                   items_order, version_string, bumps, part_vars>>

----------------------------------------------------------------------------
\* The configurations and inputs the model runs over.

DigitClass == Digits

\* '(?P<major>\d+)\.(?P<minor>\d+)\.(?P<patch>\d+)', the default of --parse
P_default ==
    <<Grp("major", DigitClass, 1), Lit("."), Grp("minor", DigitClass, 1), Lit("."),
      Grp("patch", DigitClass, 1)>>
\* '(?P<major>\d+)\.(?P<minor>\d+)(\.(?P<patch>\d+))?'
P_optional ==
    <<Grp("major", DigitClass, 1), Lit("."), Grp("minor", DigitClass, 1),
      Opt(<<Lit("."), Grp("patch", DigitClass, 1)>>)>>
\* '(?P<major>\d+)\.(?P<minor>\d+)'
P_two == <<Grp("major", DigitClass, 1), Lit("."), Grp("minor", DigitClass, 1)>>
\* '(?P<major>\d+)\.(?P<minor>[a\d]+)\.(?P<patch>\d+)': a component that may
\* hold no digit
P_release ==
    <<Grp("major", DigitClass, 1), Lit("."), Grp("minor", DigitClass \cup {"a"}, 1),
      Lit("."), Grp("patch", DigitClass, 1)>>
\* '(?P<major>\d+)\.(?P<minor>\d*)'
P_star == <<Grp("major", DigitClass, 1), Lit("."), Grp("minor", DigitClass, 0)>>

\* '{major}.{minor}.{patch}', the default of --serialize
T_mmp == <<F("major"), L("."), F("minor"), L("."), F("patch")>>
\* '{major}.{minor}'
T_mm == <<F("major"), L("."), F("minor")>>
\* '{minor}.{major}.{minor}'
T_dup == <<F("minor"), L("."), F("major"), L("."), F("minor")>>
\* '{major}.{now}'
T_now == <<F("major"), L("."), F("now")>>
\* '{major}.{minor}d'
T_dev == <<F("major"), L("."), F("minor"), L("d")>>
\* ''
T_empty == <<>>

Templates == {T_mmp, T_mm, T_dup, T_now, T_dev, T_empty}
FormatLists == {<<t>> : t \in Templates} \cup {<<t, u>> : t \in Templates, u \in Templates}

Patterns == {P_default, P_optional, P_two, P_release}

Contexts == {[n \in {"now"} |-> <<"t">>],
             [n \in {"now", "patch"} |-> IF n = "now" THEN <<"t">> ELSE <<"c">>]}

SampleVersions == {<<"1", ".", "0", ".", "1">>, <<"0", ".", "1", ".", "0">>,
                   <<"1", ".", "2", ".", "9">>, <<"1", ".", "1">>,
                   <<"v", "1", ".", "1">>, <<"1", ".", "a", ".", "1">>, <<>>}

PartNames == {"major", "minor", "patch", "label"}

VersionInit(patterns, lists, contexts) ==
    /\ parse_regex \in patterns
    /\ serialize_formats \in lists
    /\ context \in contexts
    /\ has_parsed = FALSE
    /\ _parsed = EmptyDict
    /\ items_order = <<>>
    /\ op = "init"
    /\ version_string = <<>>
    /\ part_name = ""
    /\ pre = EmptyDict
    /\ exc = "none"
    /\ ret = <<>>
    /\ chosen = 0
    /\ outcomes = <<>>
    /\ bumps = 0

\* no stand-alone VersionPart in play
PartIdle ==
    /\ part = VersionPart(None)
    /\ part_op = "init"
    /\ part_pre = VersionPart(None)
    /\ part_exc = "none"
    /\ part_bumps = 0

Init == VersionInit(Patterns, FormatLists, Contexts) /\ PartIdle

Next ==
    \/ \E s \in SampleVersions : Parse(s)
    \/ \E name \in PartNames : Bump(name)
    \/ Serialize

Spec == Init /\ [][Next]_vars

----------------------------------------------------------------------------
\* The round trip parse -> serialize, as main() drives it: one parse call, on
\* any version string, then serialize.

VersionAlphabet == {"0", "1", "."}
VersionStrings == StringsUpTo(VersionAlphabet, MaxLen)

RoundTripInit ==
    /\ VersionInit({P_default, P_optional, P_star},
                   {<<T_mmp>>, <<T_mm>>, <<T_mm, T_mmp>>},
                   {[n \in {"now"} |-> <<"t">>]})
    /\ PartIdle

FirstParse(s) == ~has_parsed /\ Parse(s)

RoundTripNext ==
    \/ \E s \in VersionStrings : FirstParse(s)
    \/ Serialize

RoundTripSpec == RoundTripInit /\ [][RoundTripNext]_vars

----------------------------------------------------------------------------
\* A stand-alone VersionPart, constructed on any raw value, then bumped or
\* zeroed.

PartAlphabet == {"0", "9", "v", Newline}

VersionIdle == VersionInit({P_default}, {<<T_mmp>>}, {[n \in {"now"} |-> <<"t">>]})

PartInit ==
    /\ VersionIdle
    /\ part \in {VersionPart(v) : v \in StringsUpTo(PartAlphabet, MaxPartLen) \cup {None}}
    /\ part_op = "init"
    /\ part_pre = part
    /\ part_exc = "none"
    /\ part_bumps = 0

\* part.bump()
PartBump ==
    /\ part_bumps < MaxBumps
    /\ LET r == VersionPart_bump(part)
       IN  /\ part' = r.self
           /\ part_exc' = r.exc
    /\ part_op' = "bump"
    /\ part_pre' = part
    /\ part_bumps' = part_bumps + 1
    /\ UNCHANGED version_vars

\* part.zero()
PartZero ==
    /\ part' = VersionPart_zero(part)
    /\ part_exc' = "none"
    /\ part_op' = "zero"
    /\ part_pre' = part
    /\ UNCHANGED <<part_bumps, version_vars>>

PartNext == PartBump \/ PartZero

PartSpec == PartInit /\ [][PartNext]_vars

----------------------------------------------------------------------------
\* Notions the properties are stated in.

Formats == serialize_formats
Fields(fmt) == Range(FieldsOf(fmt))

\* the index at which the name n first appears among labels
FirstPos(labels, n) ==
    CHOOSE i \in 1..Len(labels) : labels[i] = n /\ \A j \in 1..(i - 1) : labels[j] # n

\* the components p, most significant first: by first appearance of their
\* placeholder in the first template (defined when each has one)
Precedence(p) ==
    CHOOSE o \in Orders(DOMAIN p) :
        \A i, j \in 1..Len(o) :
            i < j => FirstPos(FieldsOf(Formats[1]), o[i]) < FirstPos(FieldsOf(Formats[1]), o[j])

\* the template fmt substitutes: each placeholder names a component or a
\* context entry
Substitutes(fmt) == Fields(fmt) \subseteq DOMAIN _parsed \cup DOMAIN context

\* the integer value of the first digit run of a component's effective value
FirstRun(vp) == int(FIRST_NUMERIC_search(VersionPart_value(vp)).numeric)

BumpedParsedTarget ==
    /\ op = "bump" /\ has_parsed /\ exc = "none"
    /\ part_name \in DOMAIN pre
    /\ part_name \in Fields(Formats[1])

----------------------------------------------------------------------------
\* C1: after bump(part_name) on a parsed component that has a placeholder in
\* the first template, every parsed component whose placeholder first appears
\* before that of part_name has the value it had, and every one whose
\* placeholder first appears after it has the value "0".
C1_CascadeByFirstAppearance ==
    BumpedParsedTarget =>
        LET labels == FieldsOf(Formats[1])
        IN  \A n \in (DOMAIN pre \cap Fields(Formats[1])) \ {part_name} :
                IF FirstPos(labels, n) < FirstPos(labels, part_name)
                THEN _parsed[n] = pre[n]
                ELSE VersionPart_value(_parsed[n]) = <<"0">>

\* C10: one bump(part_name) call on a parsed component that has a placeholder
\* in the first template raises the integer value of the first digit run of
\* that component by exactly one.
C10_TargetBumpedOnce ==
    BumpedParsedTarget => FirstRun(_parsed[part_name]) = FirstRun(pre[part_name]) + 1

\* C7: bump(part_name) with part_name not among the parsed components raises
\* nothing and leaves the component mapping as it was.
C7_AbsentTargetNoOp ==
    (op = "bump" /\ has_parsed /\ part_name \notin DOMAIN pre) =>
        exc = "none" /\ _parsed = pre

\* reached: such a bump on a non-empty mapping holding a value other than "0",
\* with the absent name a placeholder of the first template
C7_Witness ==
    /\ op = "bump" /\ has_parsed /\ part_name \notin DOMAIN pre
    /\ part_name \in Fields(Formats[1])
    /\ \E n \in DOMAIN pre : VersionPart_value(pre[n]) # <<"0">>
    /\ _parsed = pre

\* the effective value of a component holds no digit
NoDigit(vp) ==
    \A i \in 1..Len(VersionPart_value(vp)) : VersionPart_value(vp)[i] \notin Digits

\* C11: a bump(part_name) whose target holds no digit run fails: the call
\* raises, and a call that raises leaves the component mapping as it was, the
\* target with its value and no other component reset.
C11_FailedBumpChangesNothing ==
    (op = "bump" /\ has_parsed) =>
        /\ (part_name \in DOMAIN pre /\ part_name \in Fields(Formats[1])
              /\ NoDigit(pre[part_name])) => exc = "AttributeError"
        /\ exc # "none" =>
              /\ part_name \in DOMAIN pre /\ NoDigit(pre[part_name])
              /\ _parsed = pre

\* reached: a failed bump of a component that has a less significant one, in
\* the first template, holding a value other than "0"
C11_Witness ==
    /\ op = "bump" /\ has_parsed /\ exc = "AttributeError"
    /\ part_name \in DOMAIN pre /\ NoDigit(pre[part_name])
    /\ \E n \in (DOMAIN pre \cap Fields(Formats[1])) \ {part_name} :
           /\ FirstPos(FieldsOf(Formats[1]), n) > FirstPos(FieldsOf(Formats[1]), part_name)
           /\ VersionPart_value(pre[n]) # <<"0">>
    /\ _parsed = pre

----------------------------------------------------------------------------
\* parse

LastMatch == search(parse_regex, version_string)

\* C2 as stated: after parse, the component names are exactly the named groups
\* that took part in the match of that parse call (none when it did not match).
C2_OnlyParticipatingGroups ==
    op = "parse" =>
        DOMAIN _parsed =
            IF LastMatch.ok
            THEN {n \in GroupNames(parse_regex) : LastMatch.groups[n] # None}
            ELSE {}

\* C2 amended: after parse, the component names are exactly ALL named groups of
\* the pattern when that parse call matched, a group that took no part in the
\* match being present with the unset value (effective value "0") and every
\* other holding the text it matched; the mapping is empty when it did not
\* match, whatever earlier parse calls left.
C2_AllGroupsOfLastMatch ==
    op = "parse" =>
        IF LastMatch.ok
        THEN /\ DOMAIN _parsed = GroupNames(parse_regex)
             /\ \A n \in DOMAIN _parsed :
                    IF LastMatch.groups[n] = None
                    THEN /\ _parsed[n]._value = None
                         /\ VersionPart_value(_parsed[n]) = <<"0">>
                    ELSE _parsed[n]._value = LastMatch.groups[n]
        ELSE DOMAIN _parsed = {}

\* reached: a parse that matched with an optional group taking no part
C2_Witness ==
    /\ op = "parse" /\ LastMatch.ok
    /\ \E n \in DOMAIN _parsed : LastMatch.groups[n] = None /\ _parsed[n]._value = None

----------------------------------------------------------------------------
\* serialize

Serialized == op = "serialize" /\ has_parsed

\* the text a placeholder stands for: the component of that name if there is
\* one, its effective value; else the context entry of that name
Resolve(n) ==
    IF n \in DOMAIN _parsed
    THEN (IF _parsed[n]._value \in {None, <<>>} THEN <<"0">> ELSE _parsed[n]._value)
    ELSE context[n]

\* the template fmt with every placeholder resolved
RECURSIVE Render(_)
Render(fmt) ==
    IF fmt = <<>> THEN <<>>
    ELSE (IF Head(fmt).kind = "lit" THEN <<Head(fmt).text>> ELSE Resolve(Head(fmt).text))
         \o Render(Tail(fmt))

\* the indexes of the templates that substitute
Substituting == {i \in 1..Len(Formats) : Substitutes(Formats[i])}

Max(S) == CHOOSE i \in S : \A j \in S : j <= i
Min(S) == CHOOSE i \in S : \A j \in S : i <= j

\* C3: needed being the components that are not optional, and the optional ones
\* met before the first that is not, scanning from the most significant: when
\* some template substitutes and has a placeholder for every needed component,
\* the template serialize renders with has one for every needed component.
C3_Needed == keys_needing_representation(_parsed, Precedence(_parsed), 1, FALSE)

C3_Complete(fmt) == C3_Needed \subseteq Fields(fmt)

C3_ChosenIsComplete ==
    (/\ Serialized
     /\ DOMAIN _parsed \subseteq Fields(Formats[1])
     /\ \E i \in Substituting : C3_Complete(Formats[i])
     /\ exc = "none")
    => C3_Complete(Formats[chosen])

\* C4 as stated, for lists of non-empty templates: serialize renders with the
\* last template, in list order, that substitutes.
C4_LastSubstitutingWins ==
    (Serialized /\ exc = "none" /\ \A i \in 1..Len(Formats) : Formats[i] # <<>>)
    => Formats[chosen] = Formats[Max(Substituting)]

\* the templates _serialize rejects as incomplete: the needed components, taken
\* in the order the mapping iterates, are a proper superset of the labels
C4_Rejected ==
    {i \in Substituting :
        LET needing == keys_needing_representation(_parsed, items_order, 1, FALSE)
            labels == Range(_labels_for_format(Formats[i]))
        IN  labels \subseteq needing /\ labels # needing}

C4_LastAccepted ==
    IF Substituting \ C4_Rejected = {} THEN 0 ELSE Max(Substituting \ C4_Rejected)

\* C4 amended: every template is tried, and serialize renders with the last
\* template, in list order, that substitutes and is not rejected as incomplete;
\* when there is none, or it is the empty template, with the first non-empty
\* template after it that substitutes (rejected as incomplete as it is).  A
\* template that raises MissingKey changes nothing.
C4_LastAcceptedWins ==
    (Serialized /\ exc = "none") =>
        /\ Len(outcomes) = Len(Formats)
        /\ chosen = IF C4_LastAccepted # 0 /\ Formats[C4_LastAccepted] # <<>>
                    THEN C4_LastAccepted
                    ELSE Min({i \in C4_Rejected : i > C4_LastAccepted /\ Formats[i] # <<>>})
        /\ ret = Render(Formats[chosen])

\* reached: a later template substitutes, is rejected as incomplete, and the
\* earlier one renders
C4_Witness ==
    /\ Serialized /\ exc = "none"
    /\ Len(Formats) = 2 /\ chosen = 1
    /\ C4_Rejected = {2}
    /\ ret = Render(Formats[1])

\* C6: serialize fails with KeyError ("no suitable format") exactly when no
\* template substitutes; when one does, it returns and raises nothing.
C6_FailsIffNoneSubstitutes ==
    Serialized =>
        /\ exc \in {"none", "KeyError"}
        /\ (exc = "KeyError") <=> (Substituting = {})

\* C8: a template fails with MissingKey exactly when one of its placeholders
\* names neither a component nor a context entry, and the text serialize returns
\* is its template with each placeholder standing for the component of that name
\* if there is one (its effective value), else for the context entry.
C8_ComponentsBeforeContext ==
    Serialized =>
        /\ \A i \in 1..Len(outcomes) :
               (outcomes[i] = "KeyError") <=> ~Substitutes(Formats[i])
        /\ exc = "none" => ret = Render(Formats[chosen])

\* reached: serialize rendered a placeholder that names both a context entry
\* and a component, the component being unset
C8_Witness ==
    /\ Serialized /\ exc = "none"
    /\ \E n \in Fields(Formats[chosen]) \cap DOMAIN context :
           n \in DOMAIN _parsed /\ _parsed[n]._value = None
    /\ ret = Render(Formats[chosen])

----------------------------------------------------------------------------
\* round trip

\* the template whose placeholders and literals mirror a pattern
RECURSIVE Mirror(_)
Mirror(pat) ==
    IF pat = <<>> THEN <<>>
    ELSE LET e == Head(pat)
         IN  (CASE e.kind = "grp" -> <<F(e.name)>>
                [] e.kind = "lit" -> <<L(e.ch)>>
                [] e.kind = "opt" -> Mirror(e.sub)) \o Mirror(Tail(pat))

\* serialize right after a parse that matched with every group taking part,
\* rendering with the template that mirrors the pattern
RoundTripCase ==
    /\ Serialized /\ bumps = 0 /\ exc = "none"
    /\ LastMatch.ok
    /\ \A n \in GroupNames(parse_regex) : LastMatch.groups[n] # None
    /\ Formats[chosen] = Mirror(parse_regex)

\* C9 as stated: in that case serialize returns the string that was parsed.
C9_RoundTrip == RoundTripCase => ret = version_string

\* the match is the whole string and no group matched the empty string
WholeMatch ==
    /\ LastMatch.start = 1
    /\ LastMatch.end = Len(version_string) + 1
    /\ \A n \in GroupNames(parse_regex) : LastMatch.groups[n] # <<>>

\* C9 amended: in that case, when moreover the match spans the whole string
\* (the pattern is searched for, not matched in full) and every group matched a
\* non-empty text, serialize returns the string that was parsed.
C9_RoundTripOfWholeMatch == (RoundTripCase /\ WholeMatch) => ret = version_string

\* reached: such a round trip, of a version with a leading zero
C9_Witness ==
    /\ RoundTripCase /\ WholeMatch
    /\ Len(version_string) = MaxLen
    /\ version_string[1] = "0"
    /\ ret = version_string

----------------------------------------------------------------------------
\* VersionPart.bump

\* C5: bump on a value whose effective value has a digit replaces the first
\* maximal digit run by the decimal rendering of its integer value plus one and
\* leaves every character before and after the run as it was.
C5_BumpsFirstRunOnly ==
    LET v == VersionPart_value(part_pre)
        d == SkipWhile(v, 1, Digits, FALSE)
        e == SkipWhile(v, d, Digits, TRUE)
    IN  (part_op = "bump" /\ d <= Len(v)) =>
            /\ part_exc = "none"
            /\ part._value = SubSeq(v, 1, d - 1) \o str(int(SubSeq(v, d, e - 1)) + 1)
                             \o SubSeq(v, e, Len(v))

====
